---- MODULE Spec2Model ----
(***************************************************************************)
(* aircmd/actions/environments.py: the environment composition engine.     *)
(*                                                                         *)
(* Strings are sequences of one-character strings, so that f-strings,      *)
(* startswith, split, replace, join and slugify are computed character by  *)
(* character.  A dagger Container is the sequence of the builder calls made *)
(* on it; every with_* call returns a new, longer sequence.                *)
(***************************************************************************)
EXTENDS Integers, Sequences, FiniteSets, TLC

VARIABLES
    gsettings,  \* the GlobalSettings object every call is given
    bindArgs,   \* the arguments of the two docker-host binding calls
    bindOut,    \* the container each binding call returned (None before it)
    pyArgs,     \* the arguments of the python environment calls, and the repository files
    pyOut,      \* what with_python_base returned or raised (None before the call)
    pkgOut,     \* what with_installed_python_package returned (None before the call)
    srcOut,     \* what a later with_python_package call returned (None before the call)
    poetryArgs, \* the arguments of the with_poetry_module call
    poetryOut,  \* what with_poetry and with_poetry_module did (None before the call)
    loadArgs,   \* the arguments of each load_image_to_docker_host invocation
    loaders,    \* each invocation's position and local variables
    daemons,    \* the images and tags each docker daemon holds, by hostname
    uuids       \* how many uuid4() values have been drawn

bindVars == <<bindArgs, bindOut>>
pyVars == <<pyArgs, pyOut, pkgOut, srcOut, poetryArgs, poetryOut>>
loadVars == <<loadArgs, loaders, daemons, uuids>>
vars == <<gsettings, bindArgs, bindOut, pyArgs, pyOut, pkgOut, srcOut, poetryArgs, poetryOut, loadArgs, loaders, daemons, uuids>>

-----------------------------------------------------------------------------
(* Python values *)

\* Optional[T]: None, or a value.
None == [none |-> TRUE]
Some(v) == [val |-> v]

\* Python truthiness of an Optional[str], Optional[List] or Optional[Tuple].
Truthy(x) == x # None /\ Len(x.val) > 0

\* a + b on str and on list
Cat(a, b) == a \o b

\* s.startswith(prefix)
StartsWith(s, prefix) ==
    /\ Len(s) >= Len(prefix)
    /\ SubSeq(s, 1, Len(prefix)) = prefix

\* s[n:]
SliceFrom(s, n) == SubSeq(s, n + 1, Len(s))

-----------------------------------------------------------------------------
(* .strings.slugify: lower-case, runs of non-alphanumerics become one "-" *)

LowerCase ==
    {"a", "b", "c", "d", "e", "f", "g", "h", "i", "j", "k", "l", "m",
     "n", "o", "p", "q", "r", "s", "t", "u", "v", "w", "x", "y", "z"}
UpperCase == {"A", "B", "G"}
Digits == {"0", "1", "2", "3", "4", "5", "6", "7", "8", "9"}

\* c.lower(), on the upper-case letters the model draws
Lower(c) ==
    CASE c = "A" -> "a"
      [] c = "B" -> "b"
      [] c = "G" -> "g"
      [] OTHER -> c

IsAlnum(c) == c \in LowerCase \cup UpperCase \cup Digits

RECURSIVE SlugFrom(_, _, _)
SlugFrom(s, i, inRun) ==
    IF i > Len(s) THEN <<>>
    ELSE IF IsAlnum(s[i]) THEN <<Lower(s[i])>> \o SlugFrom(s, i + 1, FALSE)
    ELSE IF inRun THEN SlugFrom(s, i + 1, TRUE)
    ELSE <<"-">> \o SlugFrom(s, i + 1, TRUE)

slugify(value) == SlugFrom(value, 1, FALSE)

-----------------------------------------------------------------------------
(* dagger: cache volumes and the Container builder *)

SHARED == "SHARED"
LOCKED == "LOCKED"
\* with_mounted_cache called without sharing=
UNSPECIFIED == "UNSPECIFIED"

\* dagger_client.cache_volume(name)
cache_volume(name) == [cache |-> name]

\* dagger_client.container()
container == <<>>

from_(c, image) == Append(c, [op |-> "from_", image |-> image])

with_mounted_cache(c, path, cache, sharing) ==
    Append(c, [op |-> "with_mounted_cache", path |-> path, cache |-> cache, sharing |-> sharing])

with_mounted_directory(c, path, directory) ==
    Append(c, [op |-> "with_mounted_directory", path |-> path, directory |-> directory])

with_mounted_file(c, path, file) ==
    Append(c, [op |-> "with_mounted_file", path |-> path, file |-> file])

with_exec(c, args) == Append(c, [op |-> "with_exec", args |-> args])

with_env_variable(c, name, value) ==
    Append(c, [op |-> "with_env_variable", name |-> name, value |-> value])

with_workdir(c, path) == Append(c, [op |-> "with_workdir", path |-> path])

with_exposed_port(c, port) == Append(c, [op |-> "with_exposed_port", port |-> port])

with_service_binding(c, alias, service) ==
    Append(c, [op |-> "with_service_binding", alias |-> alias, service |-> service])

\* The calls of one kind made on a container, in order.
OpsOf(c, kind) == SelectSeq(c, LAMBDA o : o.op = kind)

-----------------------------------------------------------------------------
(* .models.base.GlobalSettings, .pipelines.get_repo_dir *)

GlobalSettings ==
    [DOCKER_DIND_IMAGE |-> <<"settings.DOCKER_DIND_IMAGE">>,
     DOCKER_CLI_IMAGE |-> <<"settings.DOCKER_CLI_IMAGE">>,
     DOCKER_VERSION |-> <<"settings.DOCKER_VERSION">>,
     GRADLE_BUILD_CACHE_PATH |-> <<"settings.GRADLE_BUILD_CACHE_PATH">>,
     GRADLE_READ_ONLY_DEPENDENCY_CACHE_PATH |-> <<"settings.GRADLE_READ_ONLY_DEPENDENCY_CACHE_PATH">>,
     DEFAULT_PYTHON_EXCLUDE |-> << <<".", "v", "e", "n", "v">>, <<"b", "u", "i", "l", "d">> >>]

\* get_repo_dir(context, settings, path, include=, exclude=): a filtered view of the repository
get_repo_dir(path, include, exclude) == [dir |-> path, include |-> include, exclude |-> exclude]

-----------------------------------------------------------------------------
(* with_dockerd_service, with_bound_docker_host, with_docker_cli, with_gradle *)

DOCKERD_PORT == 2375

VAR_LIB_DOCKER == <<"/", "v", "a", "r", "/", "l", "i", "b", "/", "d", "o", "c", "k", "e", "r">>
DOCKER_LIB == <<"d", "o", "c", "k", "e", "r", "-", "l", "i", "b">>
DASH_DOCKER_LIB == <<"-", "d", "o", "c", "k", "e", "r", "-", "l", "i", "b">>
DASH == <<"-">>
TCP == <<"t", "c", "p", ":", "/", "/">>
COLON_2375 == <<":", "2", "3", "7", "5">>
TMP == <<"/", "t", "m", "p">>

HOST_TCP_ANY == <<"-", "-", "h", "o", "s", "t", "=", "t", "c", "p", ":", "/", "/", "0", ".", "0", ".", "0", ".", "0">>

\* "--host=tcp://0.0.0.0:2375"
DOCKERD_HOST_FLAG == Cat(HOST_TCP_ANY, COLON_2375)

DOCKERD_CMD ==
    << <<"dockerd">>, <<"--log-level=error">>, DOCKERD_HOST_FLAG, <<"--tls=false">> >>

\* with_dockerd_service, without the slug of the service name (fault-injected variant)
with_dockerd_service_raw_name(stg, shared_volume, docker_service_name) ==
    LET base == IF shared_volume # None THEN Cat(shared_volume.val[1], DASH_DOCKER_LIB) ELSE DOCKER_LIB
        docker_lib_volume_name ==
            IF Truthy(docker_service_name)
            THEN Cat(Cat(base, DASH), docker_service_name.val)
            ELSE base
        dind == with_mounted_cache(from_(container, stg.DOCKER_DIND_IMAGE),
                                   VAR_LIB_DOCKER, cache_volume(docker_lib_volume_name), SHARED)
        dind2 == IF shared_volume # None
                 THEN with_mounted_cache(dind, shared_volume.val[1], shared_volume.val[2], UNSPECIFIED)
                 ELSE dind
    IN  with_exec(with_exposed_port(dind2, DOCKERD_PORT), DOCKERD_CMD)

\* with_dockerd_service mounting its storage for one writer at a time (fault-injected variant)
with_dockerd_service_locked_storage(stg, shared_volume, docker_service_name) ==
    LET base == IF shared_volume # None THEN Cat(shared_volume.val[1], DASH_DOCKER_LIB) ELSE DOCKER_LIB
        docker_lib_volume_name ==
            IF Truthy(docker_service_name)
            THEN Cat(Cat(base, DASH), slugify(docker_service_name.val))
            ELSE base
        dind == with_mounted_cache(from_(container, stg.DOCKER_DIND_IMAGE),
                                   VAR_LIB_DOCKER, cache_volume(docker_lib_volume_name), LOCKED)
        dind2 == IF shared_volume # None
                 THEN with_mounted_cache(dind, shared_volume.val[1], shared_volume.val[2], UNSPECIFIED)
                 ELSE dind
    IN  with_exec(with_exposed_port(dind2, DOCKERD_PORT), DOCKERD_CMD)

\* with_dockerd_service mounting the shared volume after starting dockerd
\* (fault-injected variant)
with_dockerd_service_late_mount(stg, shared_volume, docker_service_name) ==
    LET base == IF shared_volume # None THEN Cat(shared_volume.val[1], DASH_DOCKER_LIB) ELSE DOCKER_LIB
        docker_lib_volume_name ==
            IF Truthy(docker_service_name)
            THEN Cat(Cat(base, DASH), slugify(docker_service_name.val))
            ELSE base
        dind == with_mounted_cache(from_(container, stg.DOCKER_DIND_IMAGE),
                                   VAR_LIB_DOCKER, cache_volume(docker_lib_volume_name), SHARED)
        started == with_exec(with_exposed_port(dind, DOCKERD_PORT), DOCKERD_CMD)
    IN  IF shared_volume # None
        THEN with_mounted_cache(started, shared_volume.val[1], shared_volume.val[2], UNSPECIFIED)
        ELSE started

with_dockerd_service(stg, shared_volume, docker_service_name) ==
    LET base == IF shared_volume # None THEN Cat(shared_volume.val[1], DASH_DOCKER_LIB) ELSE DOCKER_LIB
        docker_lib_volume_name ==
            IF Truthy(docker_service_name)
            THEN Cat(Cat(base, DASH), slugify(docker_service_name.val))
            ELSE base
        dind == with_mounted_cache(from_(container, stg.DOCKER_DIND_IMAGE),
                                   VAR_LIB_DOCKER, cache_volume(docker_lib_volume_name), SHARED)
        dind2 == IF shared_volume # None
                 THEN with_mounted_cache(dind, shared_volume.val[1], shared_volume.val[2], UNSPECIFIED)
                 ELSE dind
    IN  with_exec(with_exposed_port(dind2, DOCKERD_PORT), DOCKERD_CMD)

\* with_bound_docker_host testing "docker_service_name is not None" (fault-injected variant)
with_bound_docker_host_not_none(stg, c, shared_volume, docker_service_name) ==
    LET dockerd == with_dockerd_service(stg, shared_volume, docker_service_name)
        docker_lib_volume_name ==
            IF shared_volume # None THEN Cat(shared_volume.val[1], DASH_DOCKER_LIB) ELSE DOCKER_LIB
        docker_hostname ==
            IF docker_service_name # None
            THEN Cat(Cat(docker_lib_volume_name, DASH), slugify(docker_service_name.val))
            ELSE docker_lib_volume_name
        bound == with_service_binding(
                     with_env_variable(c, <<"DOCKER_HOST">>, Cat(Cat(TCP, docker_hostname), COLON_2375)),
                     docker_hostname, dockerd)
    IN  IF Truthy(shared_volume)
        THEN with_mounted_cache(bound, shared_volume.val[1], shared_volume.val[2], UNSPECIFIED)
        ELSE bound

\* with_bound_docker_host naming the host after the client's image as well (fault-injected variant)
with_bound_docker_host_per_client(stg, c, shared_volume, docker_service_name) ==
    LET dockerd == with_dockerd_service(stg, shared_volume, docker_service_name)
        docker_lib_volume_name ==
            IF shared_volume # None THEN Cat(shared_volume.val[1], DASH_DOCKER_LIB) ELSE DOCKER_LIB
        docker_hostname ==
            IF Truthy(docker_service_name)
            THEN Cat(Cat(docker_lib_volume_name, DASH), slugify(docker_service_name.val))
            ELSE Cat(docker_lib_volume_name, c[1].image)
        bound == with_service_binding(
                     with_env_variable(c, <<"DOCKER_HOST">>, Cat(Cat(TCP, docker_hostname), COLON_2375)),
                     docker_hostname, dockerd)
    IN  IF Truthy(shared_volume)
        THEN with_mounted_cache(bound, shared_volume.val[1], shared_volume.val[2], UNSPECIFIED)
        ELSE bound

\* with_bound_docker_host dropping the service-name suffix of the host name (fault-injected variant)
with_bound_docker_host_no_suffix(stg, c, shared_volume, docker_service_name) ==
    LET dockerd == with_dockerd_service(stg, shared_volume, docker_service_name)
        docker_hostname ==
            IF shared_volume # None THEN Cat(shared_volume.val[1], DASH_DOCKER_LIB) ELSE DOCKER_LIB
        bound == with_service_binding(
                     with_env_variable(c, <<"DOCKER_HOST">>, Cat(Cat(TCP, docker_hostname), COLON_2375)),
                     docker_hostname, dockerd)
    IN  IF Truthy(shared_volume)
        THEN with_mounted_cache(bound, shared_volume.val[1], shared_volume.val[2], UNSPECIFIED)
        ELSE bound

\* with_bound_docker_host leaving the shared volume off the client (fault-injected variant)
with_bound_docker_host_daemon_only(stg, c, shared_volume, docker_service_name) ==
    LET dockerd == with_dockerd_service(stg, shared_volume, docker_service_name)
        docker_lib_volume_name ==
            IF shared_volume # None THEN Cat(shared_volume.val[1], DASH_DOCKER_LIB) ELSE DOCKER_LIB
        docker_hostname ==
            IF Truthy(docker_service_name)
            THEN Cat(Cat(docker_lib_volume_name, DASH), slugify(docker_service_name.val))
            ELSE docker_lib_volume_name
    IN  with_service_binding(
            with_env_variable(c, <<"DOCKER_HOST">>, Cat(Cat(TCP, docker_hostname), COLON_2375)),
            docker_hostname, dockerd)

with_bound_docker_host(stg, c, shared_volume, docker_service_name) ==
    LET dockerd == with_dockerd_service(stg, shared_volume, docker_service_name)
        docker_lib_volume_name ==
            IF shared_volume # None THEN Cat(shared_volume.val[1], DASH_DOCKER_LIB) ELSE DOCKER_LIB
        docker_hostname ==
            IF Truthy(docker_service_name)
            THEN Cat(Cat(docker_lib_volume_name, DASH), slugify(docker_service_name.val))
            ELSE docker_lib_volume_name
        bound == with_service_binding(
                     with_env_variable(c, <<"DOCKER_HOST">>, Cat(Cat(TCP, docker_hostname), COLON_2375)),
                     docker_hostname, dockerd)
    IN  IF Truthy(shared_volume)
        THEN with_mounted_cache(bound, shared_volume.val[1], shared_volume.val[2], UNSPECIFIED)
        ELSE bound

with_docker_cli(stg, shared_volume, docker_service_name) ==
    LET docker_cli == from_(container, stg.DOCKER_CLI_IMAGE)
    IN  with_bound_docker_host(stg, docker_cli, shared_volume, docker_service_name)

GRADLE_INCLUDE ==
    << <<".root">>, <<".env">>, <<"build.gradle">>, <<"deps.toml">>, <<"gradle.properties">>,
       <<"gradle">>, <<"gradlew">>, <<"LICENSE_SHORT">>, <<"publish-repositories.gradle">>,
       <<"settings.gradle">>, <<"build.gradle">>, <<"tools/gradle">>,
       <<"spotbugs-exclude-filter-file.xml">>, <<"buildSrc">>, <<"tools/bin/build_image.sh">>,
       <<"tools/lib/lib.sh">> >>

\* shared_tmp_volume of with_gradle
SHARED_TMP_VOLUME == Some(<<TMP, cache_volume(<<"share-tmp-gradle">>)>>)

with_gradle(stg, sources_to_include, bind_to_docker_host, docker_service_name) ==
    LET include == IF Truthy(sources_to_include)
                   THEN Cat(GRADLE_INCLUDE, sources_to_include.val)
                   ELSE GRADLE_INCLUDE
        gradle_dependency_cache == cache_volume(<<"gradle-dependencies-caching">>)
        gradle_build_cache == cache_volume(<<"gradle-build-cache">>)
        shared_tmp_volume == SHARED_TMP_VOLUME
        c1 == from_(container, <<"openjdk:17.0.1-jdk-slim">>)
        c2 == with_exec(c1, << <<"apt-get">>, <<"update">> >>)
        c3 == with_exec(c2, << <<"apt-get">>, <<"install">>, <<"-y">>, <<"curl">>, <<"jq">>, <<"rsync">> >>)
        c4 == with_env_variable(c3, <<"VERSION">>, stg.DOCKER_VERSION)
        c5 == with_exec(c4, << <<"sh">>, <<"-c">>, <<"curl -fsSL https://get.docker.com | sh">> >>)
        c6 == with_env_variable(c5, <<"GRADLE_HOME">>, <<"/root/.gradle">>)
        c7 == with_exec(c6, << <<"mkdir">>, <<"/airbyte">> >>)
        c8 == with_workdir(c7, <<"/airbyte">>)
        c9 == with_mounted_directory(c8, <<"/airbyte">>, get_repo_dir(<<".">>, Some(include), None))
        c10 == with_exec(c9, << <<"mkdir">>, <<"-p">>, stg.GRADLE_READ_ONLY_DEPENDENCY_CACHE_PATH >>)
        c11 == with_mounted_cache(c10, stg.GRADLE_BUILD_CACHE_PATH, gradle_build_cache, LOCKED)
        c12 == with_mounted_cache(c11, stg.GRADLE_READ_ONLY_DEPENDENCY_CACHE_PATH,
                                  gradle_dependency_cache, UNSPECIFIED)
        openjdk_with_docker ==
            with_env_variable(c12, <<"GRADLE_RO_DEP_CACHE">>, stg.GRADLE_READ_ONLY_DEPENDENCY_CACHE_PATH)
    IN  IF bind_to_docker_host
        THEN with_bound_docker_host(stg, openjdk_with_docker, shared_tmp_volume, docker_service_name)
        ELSE openjdk_with_docker

-----------------------------------------------------------------------------
(* Callers of the docker-host binding: two calls, in either order *)

MaxNameLen == 2

NameAlphabet == {"a", "A", "-", "_"}

StringsUpTo(alphabet, n) == UNION {[1..k -> alphabet] : k \in 0..n}

ServiceNames == {None} \cup {Some(s) : s \in StringsUpTo(NameAlphabet, MaxNameLen)}

\* a caller's own shared volume
SCRATCH_VOLUME == Some(<< <<"/", "s">>, cache_volume(<<"s">>) >>)

SharedVolumes == {None, SHARED_TMP_VOLUME}

BindInputs ==
    [fn : {"with_docker_cli"}, shared_volume : SharedVolumes,
     docker_service_name : ServiceNames, bind_to_docker_host : {TRUE}]
    \cup
    [fn : {"with_docker_cli"}, shared_volume : {SCRATCH_VOLUME},
     docker_service_name : {None, Some(<<"a">>)}, bind_to_docker_host : {TRUE}]
    \cup
    [fn : {"with_gradle"}, shared_volume : {SHARED_TMP_VOLUME},
     docker_service_name : ServiceNames, bind_to_docker_host : {TRUE}]
    \cup
    [fn : {"with_gradle"}, shared_volume : {SHARED_TMP_VOLUME},
     docker_service_name : {Some(<<"g", "r", "a", "d", "l", "e">>)}, bind_to_docker_host : {FALSE}]

Callers == {1, 2}

BindInit ==
    /\ gsettings = GlobalSettings
    /\ bindArgs \in [Callers -> BindInputs]
    /\ bindOut = [k \in Callers |-> None]
    /\ pyArgs = None /\ pyOut = None /\ pkgOut = None /\ srcOut = None
    /\ poetryArgs = None /\ poetryOut = None
    /\ loadArgs = None /\ loaders = None /\ daemons = None /\ uuids = 0

\* caller k calls with_docker_cli(context, settings, shared_volume, docker_service_name)
CallDockerCli(k) ==
    /\ bindOut[k] = None
    /\ bindArgs[k].fn = "with_docker_cli"
    /\ bindOut' = [bindOut EXCEPT ![k] =
           Some(with_docker_cli(gsettings, bindArgs[k].shared_volume, bindArgs[k].docker_service_name))]
    /\ UNCHANGED <<gsettings, bindArgs, pyVars, loadVars>>

\* caller k calls with_gradle(context, settings, None, bind_to_docker_host, docker_service_name)
CallGradle(k) ==
    /\ bindOut[k] = None
    /\ bindArgs[k].fn = "with_gradle"
    /\ bindOut' = [bindOut EXCEPT ![k] =
           Some(with_gradle(gsettings, None, bindArgs[k].bind_to_docker_host,
                            bindArgs[k].docker_service_name))]
    /\ UNCHANGED <<gsettings, bindArgs, pyVars, loadVars>>

BindNext == \E k \in Callers : CallDockerCli(k) \/ CallGradle(k)

DockerSpec == BindInit /\ [][BindNext]_vars

-----------------------------------------------------------------------------
(* What a returned client container says about its daemon *)

\* caller k's call returned a container bound to a docker host
Bound(k) ==
    /\ bindOut[k] # None
    /\ Len(OpsOf(bindOut[k].val, "with_service_binding")) = 1

\* the alias under which the client reaches its daemon
Hostname(k) == OpsOf(bindOut[k].val, "with_service_binding")[1].alias

\* the daemon container the alias is bound to
Daemon(k) == OpsOf(bindOut[k].val, "with_service_binding")[1].service

\* the name of the cache volume the daemon mounts at /var/lib/docker
StorageVolumeName(k) ==
    SelectSeq(Daemon(k), LAMBDA o : o.op = "with_mounted_cache" /\ o.path = VAR_LIB_DOCKER)[1].cache.cache

\* C2: in every bound client, for every shared_volume and docker_service_name, the
\* alias registered by with_bound_docker_host equals the name of the cache volume
\* that with_dockerd_service mounts at /var/lib/docker on the bound daemon.
C2_HostnameIsStorageVolumeName ==
    \A k \in Callers : Bound(k) => Hostname(k) = StorageVolumeName(k)

\* C2 witness: bound calls with a shared volume and an empty service name, and
\* without a shared volume and with a service name that the slug changes.
C2_Witness ==
    /\ Bound(1) /\ Bound(2)
    /\ bindArgs[1].shared_volume # None /\ bindArgs[1].docker_service_name = Some(<<>>)
    /\ bindArgs[2].shared_volume = None /\ bindArgs[2].docker_service_name = Some(<<"A", "_">>)
    /\ Hostname(1) = Cat(TMP, DASH_DOCKER_LIB) /\ StorageVolumeName(1) = Hostname(1)
    /\ Hostname(2) = Cat(DOCKER_LIB, <<"-", "a", "-">>) /\ StorageVolumeName(2) = Hostname(2)

\* the shared_volume that reaches with_bound_docker_host in caller k's call
SharedVolumeOf(k) == bindArgs[k].shared_volume

ServiceNameOf(k) == bindArgs[k].docker_service_name

\* C3: two calls with identical shared_volume and identical docker_service_name,
\* whatever the client container and whichever call came first, give the same
\* hostname and the same daemon storage-volume name.
C3_SameArgumentsSameNames ==
    \A j, k \in Callers :
        (/\ Bound(j) /\ Bound(k)
         /\ SharedVolumeOf(j) = SharedVolumeOf(k)
         /\ ServiceNameOf(j) = ServiceNameOf(k))
        => /\ Hostname(j) = Hostname(k)
           /\ StorageVolumeName(j) = StorageVolumeName(k)

\* C3 witness: a docker CLI client and a gradle client, bound with the same
\* shared volume and the same service name, share hostname and storage volume.
C3_Witness ==
    /\ Bound(1) /\ Bound(2)
    /\ bindArgs[1].fn = "with_docker_cli" /\ bindArgs[2].fn = "with_gradle"
    /\ SharedVolumeOf(1) = SharedVolumeOf(2)
    /\ ServiceNameOf(1) = Some(<<"a", "A">>) /\ ServiceNameOf(2) = Some(<<"a", "A">>)
    /\ Hostname(1) = Hostname(2)
    /\ StorageVolumeName(1) = StorageVolumeName(2)

\* C4 as claimed: two different docker_service_name values with the same
\* shared_volume give two different hostnames and two different storage volumes.
C4_DifferentNamesDifferentHosts ==
    \A j, k \in Callers :
        (/\ Bound(j) /\ Bound(k)
         /\ SharedVolumeOf(j) = SharedVolumeOf(k)
         /\ ServiceNameOf(j) # ServiceNameOf(k))
        => /\ Hostname(j) # Hostname(k)
           /\ StorageVolumeName(j) # StorageVolumeName(k)

\* what a docker_service_name contributes to the names: nothing when it is None
\* or empty, its slug otherwise
ServiceKey(name) == IF Truthy(name) THEN Some(slugify(name.val)) ELSE None

\* C4 amended: with the same shared_volume, two docker_service_name values give
\* different hostnames and different storage volumes whenever exactly one of them
\* is absent or empty, or both are non-empty and their slugs differ.
C4_DifferentSlugsDifferentHosts ==
    \A j, k \in Callers :
        (/\ Bound(j) /\ Bound(k)
         /\ SharedVolumeOf(j) = SharedVolumeOf(k)
         /\ ServiceKey(ServiceNameOf(j)) # ServiceKey(ServiceNameOf(k)))
        => /\ Hostname(j) # Hostname(k)
           /\ StorageVolumeName(j) # StorageVolumeName(k)

\* C4 witness: the same shared volume, service names "a" and "a_": two daemons.
C4_Witness ==
    /\ Bound(1) /\ Bound(2)
    /\ SharedVolumeOf(1) = SharedVolumeOf(2)
    /\ ServiceNameOf(1) = Some(<<"a">>) /\ ServiceNameOf(2) = Some(<<"a", "_">>)
    /\ Hostname(1) # Hostname(2)
    /\ StorageVolumeName(1) # StorageVolumeName(2)

\* C5: two service names that are different strings with the same slug (they
\* differ only in case or punctuation) give the same storage-volume name and the
\* same hostname, for the same shared_volume.
C5_SameSlugSameNames ==
    \A j, k \in Callers :
        (/\ Bound(j) /\ Bound(k)
         /\ SharedVolumeOf(j) = SharedVolumeOf(k)
         /\ ServiceNameOf(j) # None /\ ServiceNameOf(k) # None
         /\ ServiceNameOf(j) # ServiceNameOf(k)
         /\ slugify(ServiceNameOf(j).val) = slugify(ServiceNameOf(k).val))
        => /\ StorageVolumeName(j) = StorageVolumeName(k)
           /\ Hostname(j) = Hostname(k)
           /\ Hostname(j) = Cat(Cat(IF SharedVolumeOf(j) = None THEN DOCKER_LIB
                                     ELSE Cat(SharedVolumeOf(j).val[1], DASH_DOCKER_LIB),
                                    DASH),
                                slugify(ServiceNameOf(j).val))

\* C5 witness: "A-" and "a_" are bound to the same daemon "docker-lib-a-".
C5_Witness ==
    /\ Bound(1) /\ Bound(2)
    /\ SharedVolumeOf(1) = None /\ SharedVolumeOf(2) = None
    /\ ServiceNameOf(1) = Some(<<"A", "-">>) /\ ServiceNameOf(2) = Some(<<"a", "_">>)
    /\ Hostname(1) = Cat(DOCKER_LIB, <<"-", "a", "-">>)
    /\ Hostname(2) = Hostname(1)
    /\ StorageVolumeName(1) = StorageVolumeName(2)

-----------------------------------------------------------------------------
(* with_python_base *)

PYTHON_3 == <<"p", "y", "t", "h", "o", "n", ":", "3">>
PIP_CACHE == <<"p", "i", "p", "_", "c", "a", "c", "h", "e">>
ROOT_CACHE_PIP == <<"/", "r", "o", "o", "t", "/", ".", "c", "a", "c", "h", "e", "/", "p", "i", "p">>

\* What a builder call did: the error it raised (None when it returned), the
\* cache volumes it reserved with dagger_client.cache_volume, in order, and the
\* container it returned (None when it raised).
Raised(error, reserved) == [error |-> Some(error), reserved |-> reserved, container |-> None]
Returned(c, reserved) == [error |-> None, reserved |-> reserved, container |-> Some(c)]

\* with_python_base checking the image name after reserving the pip cache
\* (fault-injected variant)
with_python_base_late_check(python_image_name) ==
    LET pip_cache == cache_volume(PIP_CACHE)
    IN  IF ~StartsWith(python_image_name, PYTHON_3)
        THEN Raised(<<"ValueError">>, <<PIP_CACHE>>)
        ELSE Returned(with_exec(with_mounted_cache(from_(container, python_image_name),
                                                   ROOT_CACHE_PIP, pip_cache, UNSPECIFIED),
                                << <<"pip">>, <<"install">>, <<"--upgrade">>, <<"pip">> >>),
                      <<PIP_CACHE>>)

with_python_base(python_image_name) ==
    IF ~StartsWith(python_image_name, PYTHON_3)
    THEN Raised(<<"ValueError">>, <<>>)
    ELSE LET pip_cache == cache_volume(PIP_CACHE)
             base_container ==
                 with_exec(with_mounted_cache(from_(container, python_image_name),
                                              ROOT_CACHE_PIP, pip_cache, UNSPECIFIED),
                           << <<"pip">>, <<"install">>, <<"--upgrade">>, <<"pip">> >>)
         IN  Returned(base_container, <<PIP_CACHE>>)

-----------------------------------------------------------------------------
(* with_debian_packages, with_pip_packages, with_poetry, with_poetry_module *)

\* uuid4(): a value never drawn before
UUIDS == << <<"u", "1">>, <<"u", "2">> >>

POETRY_CACHE == <<"p", "o", "e", "t", "r", "y", "_", "c", "a", "c", "h", "e">>
ROOT_CACHE_PYPOETRY ==
    <<"/", "r", "o", "o", "t", "/", ".", "c", "a", "c", "h", "e", "/", "p", "y", "p", "o", "e", "t", "r", "y">>
PYTHON_3_9 == <<"p", "y", "t", "h", "o", "n", ":", "3", ".", "9">>
SRC == <<"/", "s", "r", "c">>

with_debian_packages(base_container, packages_to_install) ==
    LET update_packages_command == << <<"apt-get">>, <<"update">> >>
        package_install_command == << <<"apt-get">>, <<"install">>, <<"-y">> >>
    IN  with_exec(with_exec(base_container, update_packages_command),
                  Cat(package_install_command, packages_to_install))

with_pip_packages(base_container, packages_to_install) ==
    LET package_install_command == << <<"pip">>, <<"install">> >>
    IN  with_exec(base_container, Cat(package_install_command, packages_to_install))

\* with_poetry: with_mounted_cache returns a new container, which line 367
\* drops; the container returned is the one it was called on
with_poetry ==
    LET python_base_environment == with_python_base(PYTHON_3_9)
        python_with_git == with_debian_packages(python_base_environment.container.val, << <<"git">> >>)
        python_with_poetry == with_pip_packages(python_with_git, << <<"poetry">> >>)
        poetry_cache == cache_volume(POETRY_CACHE)
        dropped == with_mounted_cache(python_with_poetry, ROOT_CACHE_PYPOETRY, poetry_cache, SHARED)
    IN  Returned(python_with_poetry, Append(python_base_environment.reserved, POETRY_CACHE))

\* with_poetry_module; uuid is the value uuid4() gives
with_poetry_module(parent_dir, module_path, uuid) ==
    LET poetry_install_dependencies_cmd == << <<"poetry">>, <<"install">> >>
        python_with_poetry == with_poetry
        c1 == with_mounted_directory(python_with_poetry.container.val, SRC, parent_dir)
        c2 == with_workdir(c1, Cat(Cat(SRC, <<"/">>), module_path))
        c3 == with_exec(c2, poetry_install_dependencies_cmd)
    IN  Returned(with_env_variable(c3, <<"CACHEBUSTER">>, uuid), python_with_poetry.reserved)

-----------------------------------------------------------------------------
(* with_python_package, with_installed_python_package *)

SLASH == <<"/">>
NEWLINE == "\n"
REQUIREMENTS_TXT == <<"r", "e", "q", "u", "i", "r", "e", "m", "e", "n", "t", "s", ".", "t", "x", "t">>
EDITABLE_LOCAL == <<"-", "e", " ", ".">>

install_local_requirements_cmd ==
    << <<"python">>, <<"-m">>, <<"pip">>, <<"install">>, <<"-r">>, REQUIREMENTS_TXT >>
install_connector_package_cmd ==
    << <<"python">>, <<"-m">>, <<"pip">>, <<"install">>, <<".">> >>

\* s.split(sep) for a one-character separator
RECURSIVE SplitFrom(_, _, _, _)
SplitFrom(s, sep, i, current) ==
    IF i > Len(s) THEN <<current>>
    ELSE IF s[i] = sep THEN <<current>> \o SplitFrom(s, sep, i + 1, <<>>)
    ELSE SplitFrom(s, sep, i + 1, Append(current, s[i]))

Split(s, sep) == SplitFrom(s, sep, 1, <<>>)

\* sep.join(parts)
RECURSIVE Join(_, _)
Join(parts, sep) ==
    IF Len(parts) = 0 THEN <<>>
    ELSE IF Len(parts) = 1 THEN parts[1]
    ELSE parts[1] \o sep \o Join(Tail(parts), sep)

\* with_python_package extending settings.DEFAULT_PYTHON_EXCLUDE in place
\* (fault-injected variant)
with_python_package_extending_default(stg, python_environment, package_source_code_path, exclude) ==
    LET exclude2 == IF Truthy(exclude)
                    THEN Cat(stg.DEFAULT_PYTHON_EXCLUDE, exclude.val)
                    ELSE stg.DEFAULT_PYTHON_EXCLUDE
        package_source_code_directory == get_repo_dir(package_source_code_path, None, Some(exclude2))
        c == with_workdir(with_mounted_directory(python_environment,
                                                 Cat(SLASH, package_source_code_path),
                                                 package_source_code_directory),
                          Cat(SLASH, package_source_code_path))
    IN  [container |-> c, settings |-> [stg EXCEPT !.DEFAULT_PYTHON_EXCLUDE = exclude2]]

\* with_python_package: the container with the package source mounted, and the
\* settings object as the call leaves it
with_python_package(stg, python_environment, package_source_code_path, exclude) ==
    LET exclude2 == IF Truthy(exclude)
                    THEN Cat(stg.DEFAULT_PYTHON_EXCLUDE, exclude.val)
                    ELSE stg.DEFAULT_PYTHON_EXCLUDE
        package_source_code_directory == get_repo_dir(package_source_code_path, None, Some(exclude2))
        c == with_workdir(with_mounted_directory(python_environment,
                                                 Cat(SLASH, package_source_code_path),
                                                 package_source_code_directory),
                          Cat(SLASH, package_source_code_path))
    IN  [container |-> c, settings |-> stg]

\* .pipelines.get_file_contents(container, path): the contents of the file in the
\* container's working directory, None when there is no such file.  files holds
\* the repository's files under the package path.
get_file_contents(c, path, files) ==
    LET mounts == OpsOf(c, "with_mounted_directory")
        directory == mounts[Len(mounts)].directory
        excluded == {directory.exclude.val[i] : i \in 1..Len(directory.exclude.val)}
    IN  IF path \in excluded \/ path \notin DOMAIN files THEN None ELSE Some(files[path])

\* line 119, testing for "-e " alone (fault-injected variant)
is_local_dependency_any_editable(line) == StartsWith(line, <<"-", "e", " ">>)

\* line 119: line.startswith("-e .")
is_local_dependency(line) == StartsWith(line, EDITABLE_LOCAL)

\* lines 120-123: mount one local dependency
mount_local_dependency(stg, c, package_source_code_path, line) ==
    LET local_dependency_path == Cat(Cat(package_source_code_path, SLASH), SliceFrom(line, 3))
    IN  with_mounted_directory(c, Cat(SLASH, local_dependency_path),
                               get_repo_dir(local_dependency_path, None, Some(stg.DEFAULT_PYTHON_EXCLUDE)))

\* lines 118-123 walking the lines from the last to the first (fault-injected variant)
RECURSIVE mount_local_dependencies_backwards(_, _, _, _)
mount_local_dependencies_backwards(stg, c, package_source_code_path, lines) ==
    IF Len(lines) = 0 THEN c
    ELSE LET line == lines[Len(lines)]
             c2 == IF is_local_dependency(line)
                   THEN mount_local_dependency(stg, c, package_source_code_path, line)
                   ELSE c
         IN  mount_local_dependencies_backwards(stg, c2, package_source_code_path,
                                                SubSeq(lines, 1, Len(lines) - 1))

\* lines 118-123: for line in requirements_txt.split("\n")
RECURSIVE mount_local_dependencies_loop(_, _, _, _)
mount_local_dependencies_loop(stg, c, package_source_code_path, lines) ==
    IF Len(lines) = 0 THEN c
    ELSE LET line == Head(lines)
             c2 == IF is_local_dependency(line)
                   THEN mount_local_dependency(stg, c, package_source_code_path, line)
                   ELSE c
         IN  mount_local_dependencies_loop(stg, c2, package_source_code_path, Tail(lines))

mount_local_dependencies(stg, c, package_source_code_path, lines) ==
    mount_local_dependencies_loop(stg, c, package_source_code_path, lines)

\* lines 117-124 installing from the manifest whether or not it was read
\* (fault-injected variant)
install_local_requirements_always(stg, c, package_source_code_path, requirements_txt) ==
    IF Truthy(requirements_txt)
    THEN with_exec(mount_local_dependencies(stg, c, package_source_code_path,
                                            Split(requirements_txt.val, NEWLINE)),
                   install_local_requirements_cmd)
    ELSE with_exec(c, install_local_requirements_cmd)

\* lines 117-124: if requirements_txt := ...: mount the local dependencies, then
\* install from the manifest
install_local_requirements(stg, c, package_source_code_path, requirements_txt) ==
    IF Truthy(requirements_txt)
    THEN with_exec(mount_local_dependencies(stg, c, package_source_code_path,
                                            Split(requirements_txt.val, NEWLINE)),
                   install_local_requirements_cmd)
    ELSE c

\* line 130 joining the groups without a separator (fault-injected variant)
install_extras_cmd_no_comma(additional_dependency_groups) ==
    Cat(SubSeq(install_connector_package_cmd, 1, Len(install_connector_package_cmd) - 1),
        << Cat(install_connector_package_cmd[Len(install_connector_package_cmd)],
               Cat(Cat(<<"[">>, Join(additional_dependency_groups, <<>>)), <<"]">>)) >>)

\* line 130: install_connector_package_cmd[:-1] + [install_connector_package_cmd[-1] + f"[{','.join(groups)}]"]
install_extras_cmd(additional_dependency_groups) ==
    Cat(SubSeq(install_connector_package_cmd, 1, Len(install_connector_package_cmd) - 1),
        << Cat(install_connector_package_cmd[Len(install_connector_package_cmd)],
               Cat(Cat(<<"[">>, Join(additional_dependency_groups, <<",">>)), <<"]">>)) >>)

with_installed_python_package(stg, python_environment, package_source_code_path, additional_dependency_groups, exclude, files) ==
    LET packaged == with_python_package(stg, python_environment, package_source_code_path, exclude)
        requirements_txt == get_file_contents(packaged.container, REQUIREMENTS_TXT, files)
        c1 == install_local_requirements(packaged.settings, packaged.container,
                                         package_source_code_path, requirements_txt)
        c2 == with_exec(c1, install_connector_package_cmd)
        c3 == IF Truthy(additional_dependency_groups)
              THEN with_exec(c2, install_extras_cmd(additional_dependency_groups.val))
              ELSE c2
    IN  [container |-> c3, settings |-> packaged.settings]

-----------------------------------------------------------------------------
(* A pipeline step building a python environment and installing a package *)

MaxLines == 2
MaxGroups == 2

SeqsUpTo(S, n) == UNION {[1..k -> S] : k \in 0..n}

ImageNames ==
    { <<"p", "y", "t", "h", "o", "n", ":", "3", ".", "9", "-", "s", "l", "i", "m">>,
      <<"p", "y", "t", "h", "o", "n", ":", "3", ".", "9">>,
      <<"p", "y", "t", "h", "o", "n", ":", "3">>,
      <<"p", "y", "t", "h", "o", "n", ":", "2", ".", "7">>,
      <<"p", "y", "t", "h", "o", "n", ":">>,
      <<"p", "y", "p", "y", ":", "3", ".", "9">>,
      <<" ", "p", "y", "t", "h", "o", "n", ":", "3", ".", "9">>,
      <<>> }

\* the lines a requirements.txt is made of
ManifestLines ==
    { <<"-", "e", " ", ".", "/", "a">>,
      <<"-", "e", " ", ".", "/", "b">>,
      <<"-", "e", " ", "/", "a">>,
      <<"x">>,
      <<>> }

GroupNames == { <<"d", "e", "v">>, <<"t">> }

DIST == <<"d", "i", "s", "t">>

Excludes == {None, Some(<<>>), Some(<<DIST>>), Some(<<REQUIREMENTS_TXT>>)}

PACKAGE_PATH == <<"p">>

PyInputs ==
    [python_image_name : ImageNames,
     lines : {None} \cup {Some(l) : l \in SeqsUpTo(ManifestLines, MaxLines)},
     additional_dependency_groups : {None} \cup {Some(g) : g \in SeqsUpTo(GroupNames, MaxGroups)},
     exclude : Excludes]

\* the files of the repository under the package path: requirements.txt holds
\* the lines joined by newlines, when there is one
RepoFiles == IF pyArgs.lines = None THEN <<>> ELSE REQUIREMENTS_TXT :> Join(pyArgs.lines.val, <<NEWLINE>>)

PyInit ==
    /\ gsettings = GlobalSettings
    /\ pyArgs \in PyInputs
    /\ pyOut = None /\ pkgOut = None /\ srcOut = None
    /\ poetryArgs = None /\ poetryOut = None
    /\ bindArgs = None /\ bindOut = None
    /\ loadArgs = None /\ loaders = None /\ daemons = None /\ uuids = 0

\* with_python_base(context, python_image_name)
CallPythonBase ==
    /\ pyOut = None
    /\ pyOut' = Some(with_python_base(pyArgs.python_image_name))
    /\ UNCHANGED <<gsettings, pyArgs, pkgOut, srcOut, poetryArgs, poetryOut, bindVars, loadVars>>

\* await with_installed_python_package(context, settings, python_environment,
\*     package_source_code_path, additional_dependency_groups, exclude)
CallInstalledPythonPackage ==
    /\ pyOut # None /\ pyOut.val.error = None
    /\ pkgOut = None
    /\ LET r == with_installed_python_package(gsettings, pyOut.val.container.val, PACKAGE_PATH,
                                              pyArgs.additional_dependency_groups, pyArgs.exclude,
                                              RepoFiles)
       IN  /\ pkgOut' = Some(r.container)
           /\ gsettings' = r.settings
    /\ UNCHANGED <<pyArgs, pyOut, srcOut, poetryArgs, poetryOut, bindVars, loadVars>>

\* a later step: with_python_package(context, settings, python_environment,
\*     package_source_code_path), exclude left out
CallPythonPackage ==
    /\ pkgOut # None
    /\ srcOut = None
    /\ LET r == with_python_package(gsettings, pyOut.val.container.val, PACKAGE_PATH, None)
       IN  /\ srcOut' = Some(r.container)
           /\ gsettings' = r.settings
    /\ UNCHANGED <<pyArgs, pyOut, pkgOut, poetryArgs, poetryOut, bindVars, loadVars>>

PyNext == CallPythonBase \/ CallInstalledPythonPackage \/ CallPythonPackage

PySpec == PyInit /\ [][PyNext]_vars

-----------------------------------------------------------------------------
(* Pipeline steps building poetry environments *)

MaxPathLen == 3

PathAlphabet == {"a", "b", "/"}

ModulePaths == StringsUpTo(PathAlphabet, MaxPathLen)

PoetryBuilders == {"with_poetry", "with_poetry_module"}

PoetryInit ==
    /\ gsettings = GlobalSettings
    /\ poetryArgs \in [parent_dir : {get_repo_dir(<<".">>, None, None)}, module_path : ModulePaths]
    /\ poetryOut = [f \in PoetryBuilders |-> None]
    /\ pyArgs = None /\ pyOut = None /\ pkgOut = None /\ srcOut = None
    /\ bindArgs = None /\ bindOut = None
    /\ loadArgs = None /\ loaders = None /\ daemons = None /\ uuids = 0

\* with_poetry(context)
CallPoetry ==
    /\ poetryOut["with_poetry"] = None
    /\ poetryOut' = [poetryOut EXCEPT !["with_poetry"] = Some(with_poetry)]
    /\ UNCHANGED <<gsettings, pyArgs, pyOut, pkgOut, srcOut, poetryArgs, bindVars, loadVars>>

\* with_poetry_module(context, parent_dir, module_path)
CallPoetryModule ==
    /\ poetryOut["with_poetry_module"] = None
    /\ uuids < Len(UUIDS)
    /\ poetryOut' = [poetryOut EXCEPT !["with_poetry_module"] =
           Some(with_poetry_module(poetryArgs.parent_dir, poetryArgs.module_path, UUIDS[uuids + 1]))]
    /\ uuids' = uuids + 1
    /\ UNCHANGED <<gsettings, pyArgs, pyOut, pkgOut, srcOut, poetryArgs, bindVars,
                   loadArgs, loaders, daemons>>

PoetryNext == CallPoetry \/ CallPoetryModule

PoetrySpec == PoetryInit /\ [][PoetryNext]_vars

-----------------------------------------------------------------------------
(* What the installed container says about the install sequence *)

\* with_installed_python_package has returned
Installed == pkgOut # None

\* positions, in the returned container, of the calls with_exec(cmd)
ExecPositions(c, cmd) == {i \in 1..Len(c) : c[i].op = "with_exec" /\ c[i].args = cmd}

\* positions of the directory mounts other than the package source itself
LocalMountPositions(c) ==
    {i \in 1..Len(c) : c[i].op = "with_mounted_directory" /\ c[i].path # Cat(SLASH, PACKAGE_PATH)}

\* the paths of those mounts, in the order they were applied
LocalMountPaths(c) ==
    LET m == SelectSeq(c, LAMBDA o : o.op = "with_mounted_directory" /\ o.path # Cat(SLASH, PACKAGE_PATH))
    IN  [i \in 1..Len(m) |-> m[i].path]

\* a line of the manifest that starts with "-e ."
HasEditableLocalPrefix(line) ==
    Len(line) >= 4 /\ line[1] = "-" /\ line[2] = "e" /\ line[3] = " " /\ line[4] = "."

\* the editable-local lines p1..pN of the manifest, in manifest order
EditableLines == SelectSeq(pyArgs.lines.val, HasEditableLocalPrefix)

\* requirements.txt is in the repository and the caller did not exclude it
ManifestPresent ==
    /\ pyArgs.lines # None
    /\ ~(pyArgs.exclude # None
         /\ \E i \in 1..Len(pyArgs.exclude.val) : pyArgs.exclude.val[i] = REQUIREMENTS_TXT)

\* requirements.txt is a file of zero bytes
ManifestEmpty == pyArgs.lines.val \in {<<>>, << <<>> >>}

\* install-from-manifest is issued once, after every local mount and before the
\* one install of the package
InstallSequenceRuns(c) ==
    /\ Cardinality(ExecPositions(c, install_local_requirements_cmd)) = 1
    /\ Cardinality(ExecPositions(c, install_connector_package_cmd)) = 1
    /\ \A r \in ExecPositions(c, install_local_requirements_cmd) :
          /\ \A m \in LocalMountPositions(c) : m < r
          /\ \A k \in ExecPositions(c, install_connector_package_cmd) : r < k

\* C6: for a requirements.txt with editable-local lines p1..pN (N >= 1), the local
\* mounts of the returned container are those of p1..pN in that order, and
\* "pip install -r requirements.txt" is issued exactly once, after all N mounts
\* and before "pip install .".
C6_LocalMountsInManifestOrder ==
    (Installed /\ ManifestPresent /\ Len(EditableLines) >= 1)
    => /\ Len(LocalMountPaths(pkgOut.val)) = Len(EditableLines)
       /\ \A i \in 1..Len(EditableLines) :
             LocalMountPaths(pkgOut.val)[i] =
                 <<"/">> \o PACKAGE_PATH \o <<"/">>
                 \o SubSeq(EditableLines[i], 4, Len(EditableLines[i]))
       /\ InstallSequenceRuns(pkgOut.val)

\* C6 witness: "-e ./b" then "-e ./a" gives the mounts /p/./b then /p/./a.
C6_Witness ==
    /\ Installed
    /\ ManifestPresent
    /\ pyArgs.lines = Some(<< <<"-", "e", " ", ".", "/", "b">>, <<"-", "e", " ", ".", "/", "a">> >>)
    /\ LocalMountPaths(pkgOut.val) = << <<"/", "p", "/", ".", "/", "b">>, <<"/", "p", "/", ".", "/", "a">> >>
    /\ InstallSequenceRuns(pkgOut.val)

\* C7 as claimed: for a requirements.txt that is present and has no editable-local
\* line, no local mount is added and the install sequence runs: install from the
\* manifest once, then install the package once.
C7_NoEditableLinesStillInstalls ==
    (Installed /\ ManifestPresent /\ Len(EditableLines) = 0)
    => /\ LocalMountPositions(pkgOut.val) = {}
       /\ InstallSequenceRuns(pkgOut.val)

\* C7 amended: the same for a requirements.txt that is present, is not empty
\* (holds at least one character) and has no editable-local line.
C7_NonEmptyNoEditableLinesStillInstalls ==
    (Installed /\ ManifestPresent /\ ~ManifestEmpty /\ Len(EditableLines) = 0)
    => /\ LocalMountPositions(pkgOut.val) = {}
       /\ InstallSequenceRuns(pkgOut.val)

\* C7 witness: the manifest "x\n-e /a" is installed without any local mount.
C7_Witness ==
    /\ Installed
    /\ ManifestPresent
    /\ pyArgs.lines = Some(<< <<"x">>, <<"-", "e", " ", "/", "a">> >>)
    /\ LocalMountPositions(pkgOut.val) = {}
    /\ InstallSequenceRuns(pkgOut.val)

\* C8: when requirements.txt cannot be read, the call returns a container with no
\* local mount and no install from the manifest, and "pip install ." is issued;
\* whether the manifest is absent, empty or present, "pip install ." is issued
\* exactly once.
C8_AbsentManifestInstallsPackageOnce ==
    Installed
    => /\ Cardinality(ExecPositions(pkgOut.val, install_connector_package_cmd)) = 1
       /\ ~ManifestPresent
          => /\ LocalMountPositions(pkgOut.val) = {}
             /\ ExecPositions(pkgOut.val, install_local_requirements_cmd) = {}

\* C8 witness: no requirements.txt in the repository, the package is installed.
C8_Witness ==
    /\ Installed
    /\ pyArgs.lines = None
    /\ ExecPositions(pkgOut.val, install_local_requirements_cmd) = {}
    /\ Cardinality(ExecPositions(pkgOut.val, install_connector_package_cmd)) = 1

\* g1,g2,...,gn
RECURSIVE CommaJoined(_)
CommaJoined(groups) ==
    IF Len(groups) = 0 THEN <<>>
    ELSE IF Len(groups) = 1 THEN groups[1]
    ELSE CommaJoined(SubSeq(groups, 1, Len(groups) - 1)) \o <<",">> \o groups[Len(groups)]

\* C9: with non-empty additional_dependency_groups, exactly one command follows
\* "pip install .": "pip install .[g1,g2,...]" with the groups in the caller's
\* order; with None or an empty list, "pip install ." is the last command.
C9_ExtrasInstalledOnceInOrder ==
    Installed
    => LET c == pkgOut.val
           groups == pyArgs.additional_dependency_groups
       IN  /\ ExecPositions(c, install_connector_package_cmd) # {}
           /\ \A k \in ExecPositions(c, install_connector_package_cmd) :
              IF groups # None /\ groups.val # <<>>
              THEN /\ Len(c) = k + 1
                   /\ c[k + 1].op = "with_exec"
                   /\ c[k + 1].args =
                          << <<"python">>, <<"-m">>, <<"pip">>, <<"install">>,
                             <<".", "[">> \o CommaJoined(groups.val) \o <<"]">> >>
              ELSE Len(c) = k

\* C9 witness: the groups ["dev", "t"] end the container with "pip install .[dev,t]".
C9_Witness ==
    /\ Installed
    /\ pyArgs.additional_dependency_groups = Some(<< <<"d", "e", "v">>, <<"t">> >>)
    /\ pkgOut.val[Len(pkgOut.val)].args =
           << <<"python">>, <<"-m">>, <<"pip">>, <<"install">>,
              <<".", "[", "d", "e", "v", ",", "t", "]">> >>
    /\ pkgOut.val[Len(pkgOut.val) - 1].args = install_connector_package_cmd

\* the image names of the python:3 family among those the callers pass
PythonFamily ==
    { <<"p", "y", "t", "h", "o", "n", ":", "3", ".", "9", "-", "s", "l", "i", "m">>,
      <<"p", "y", "t", "h", "o", "n", ":", "3", ".", "9">>,
      <<"p", "y", "t", "h", "o", "n", ":", "3">> }

\* C10: with_python_base with an image name outside the python:3 family raises
\* before any engine operation: no cache volume is reserved and no container is
\* built; with a name of the family it does not raise.
C10_InvalidBaseImageFailsFast ==
    pyOut # None
    => IF pyArgs.python_image_name \in PythonFamily
       THEN pyOut.val.error = None /\ pyOut.val.container # None
       ELSE /\ pyOut.val.error = Some(<<"ValueError">>)
            /\ pyOut.val.reserved = <<>>
            /\ pyOut.val.container = None

\* C10 witness: "python:2.7" raised ValueError with nothing reserved or built.
C10_Witness ==
    /\ pyOut # None
    /\ pyArgs.python_image_name = <<"p", "y", "t", "h", "o", "n", ":", "2", ".", "7">>
    /\ pyOut.val.error = Some(<<"ValueError">>)
    /\ pyOut.val.reserved = <<>>
    /\ pyOut.val.container = None

-----------------------------------------------------------------------------
(* load_image_to_docker_host *)

\* sub in s
Contains(s, sub) ==
    \E i \in 1..(Len(s) - Len(sub) + 1) : SubSeq(s, i, i + Len(sub) - 1) = sub

\* s.replace(old, new), old not empty
RECURSIVE ReplaceFrom(_, _, _, _)
ReplaceFrom(s, old, new, i) ==
    IF i > Len(s) THEN <<>>
    ELSE IF i + Len(old) - 1 <= Len(s) /\ SubSeq(s, i, i + Len(old) - 1) = old
         THEN new \o ReplaceFrom(s, old, new, i + Len(old))
         ELSE <<s[i]>> \o ReplaceFrom(s, old, new, i + 1)

Replace(s, old, new) == ReplaceFrom(s, old, new, 1)

SHA256 == <<"s", "h", "a", "2", "5", "6", ":">>
LOADED_IMAGE_ID ==
    <<"L", "o", "a", "d", "e", "d", " ", "i", "m", "a", "g", "e", " ", "I", "D", ":", " ",
      "s", "h", "a", "2", "5", "6", ":">>
LOADED_IMAGE == <<"L", "o", "a", "d", "e", "d", " ", "i", "m", "a", "g", "e", ":", " ">>
DOT_TAR == <<".", "t", "a", "r">>

\* The docker daemon behind a hostname: the image ids it stores and the image
\* each tag names (None for a tag that names nothing).

\* docker image rm <ref>: untag, and delete the image once no tag names it
docker_image_rm(d, ref) ==
    IF ref \in DOMAIN d.tags /\ d.tags[ref] # None
    THEN LET id == d.tags[ref].val
             tags2 == [d.tags EXCEPT ![ref] = None]
             tagged == \E t \in DOMAIN tags2 : tags2[t] = Some(id)
         IN  [exit_code |-> 0,
              stdout |-> <<>>,
              daemon |-> [images |-> IF tagged THEN d.images ELSE d.images \ {id}, tags |-> tags2]]
    ELSE [exit_code |-> 1, stdout |-> <<>>, daemon |-> d]

\* docker load --input <tar>: store the image; an image saved with a tag takes
\* that tag and is reported by tag, an untagged one is reported by id
docker_load(d, tar) ==
    IF tar.repo_tag # None
    THEN [exit_code |-> 0,
          stdout |-> LOADED_IMAGE \o tar.repo_tag.val \o <<NEWLINE>>,
          daemon |-> [images |-> d.images \cup {tar.image_id},
                      tags |-> [d.tags EXCEPT ![tar.repo_tag.val] = Some(tar.image_id)]]]
    ELSE [exit_code |-> 0,
          stdout |-> LOADED_IMAGE_ID \o tar.image_id \o <<NEWLINE>>,
          daemon |-> [images |-> d.images \cup {tar.image_id}, tags |-> d.tags]]

\* docker tag <source> <target>
docker_tag(d, source, target) ==
    IF target \notin DOMAIN d.tags THEN [exit_code |-> 1, stdout |-> <<>>, daemon |-> d]
    ELSE IF source \in d.images
    THEN [exit_code |-> 0, stdout |-> <<>>,
          daemon |-> [d EXCEPT !.tags[target] = Some(source)]]
    ELSE IF source \in DOMAIN d.tags /\ d.tags[source] # None
    THEN [exit_code |-> 0, stdout |-> <<>>,
          daemon |-> [d EXCEPT !.tags[target] = d.tags[source]]]
    ELSE [exit_code |-> 1, stdout |-> <<>>, daemon |-> d]

\* the command of a container's last with_exec
ExecArgs(c) == c[Len(c)].args

\* the file a container has mounted at a path
MountedFile(c, path) ==
    LET m == SelectSeq(c, LAMBDA o : o.op = "with_mounted_file" /\ o.path = path)
    IN  m[Len(m)].file

\* Running a docker CLI container: its last with_exec against daemon d.
\* readable is FALSE when the daemon cannot read the archive it is given.
docker_exec(d, c, readable) ==
    LET args == ExecArgs(c)
    IN  IF args[2] = <<"image">> THEN docker_image_rm(d, args[4])
        ELSE IF args[2] = <<"load">>
        THEN IF readable
             THEN docker_load(d, MountedFile(c, args[4]))
             ELSE [exit_code |-> 1, stdout |-> <<>>, daemon |-> d]
        ELSE docker_tag(d, args[3], args[4])

\* the hostname a docker CLI container reaches its daemon by
DockerHostOf(c) == OpsOf(c, "with_service_binding")[1].alias

\* lines 336-337: the docker CLI container with the tar archive mounted
load_docker_cli(stg, tar_name, tar_file, docker_service_name) ==
    with_mounted_file(with_docker_cli(stg, None, docker_service_name), tar_name, tar_file)

\* line 341: the container that removes the image tagged image_tag
image_rm_container(docker_cli, tar_name, image_tag) ==
    with_exec(with_env_variable(docker_cli, <<"CACHEBUSTER">>, tar_name),
              << <<"docker">>, <<"image">>, <<"rm">>, image_tag >>)

\* line 345: the container that loads the archive
image_load_container(docker_cli, tar_name) ==
    with_exec(docker_cli, << <<"docker">>, <<"load">>, <<"--input">>, tar_name >>)

\* with_exit_code raising on a non-zero exit status (fault-injected variant)
with_exit_code_raising(ran) == [raised |-> ran.exit_code # 0, value |-> ran.exit_code]

\* with_exit_code: the exit status of the container's last command, zero or
\* not, handed back as a value
with_exit_code(ran) == [raised |-> FALSE, value |-> ran.exit_code]

\* stdout() handing back the output whatever the exit status (fault-injected variant)
stdout_ignoring_exit(ran) == [raised |-> FALSE, value |-> ran.stdout]

\* Container.stdout(): the output of the container's last command; raises when
\* the command exits non-zero
stdout(ran) == [raised |-> ran.exit_code # 0, value |-> ran.stdout]

\* line 348: "sha256:" in image_load_output
is_untagged_output(image_load_output) == Contains(image_load_output, SHA256)

\* line 349 with only the prefix removed (fault-injected variant)
parse_image_id_keep_newline(image_load_output) ==
    Replace(image_load_output, LOADED_IMAGE_ID, <<>>)

\* line 349: the image id parsed out of the load output
parse_image_id(image_load_output) ==
    Replace(Replace(image_load_output, <<NEWLINE>>, <<>>), LOADED_IMAGE_ID, <<>>)

\* line 350: the container that tags the loaded image
image_tag_container(docker_cli, image_id, image_tag) ==
    with_exec(docker_cli, << <<"docker">>, <<"tag">>, image_id, image_tag >>)

-----------------------------------------------------------------------------
(* Two invocations of load_image_to_docker_host, interleaved at their awaits *)

Loaders == {"A", "B"}

ImageIds == { <<"a", "1">>, <<"b", "2">> }
OLD_IMAGE == <<"0", "0">>
ImageTags == { <<"m", ":", "1">>, <<"o", ":", "2">> }

\* a tar archive: the image it holds and the tag it was saved with, if any
TarFiles == [image_id : ImageIds, repo_tag : {None} \cup {Some(t) : t \in ImageTags}]

LoadServiceNames == {None, Some(<<"G">>)}

LoadInputs == [tar_file : TarFiles, image_tag : ImageTags, docker_service_name : LoadServiceNames]

Hosts == {DockerHostOf(with_docker_cli(GlobalSettings, None, n)) : n \in LoadServiceNames}

LoadInit ==
    /\ gsettings = GlobalSettings
    /\ loadArgs \in [Loaders -> LoadInputs]
    /\ loaders = [l \in Loaders |->
           [pc |-> "start", tar_name |-> None, docker_cli |-> None,
            docker_image_rm_exit_code |-> None, image_load_output |-> None, logged |-> <<>>,
            issued |-> <<>>, exits |-> <<>>]]
    /\ \E prior \in SUBSET ImageTags :
           daemons = [h \in Hosts |->
               [images |-> IF prior = {} THEN {} ELSE {OLD_IMAGE},
                tags |-> [t \in ImageTags |-> IF t \in prior THEN Some(OLD_IMAGE) ELSE None]]]
    /\ uuids = 0
    /\ bindArgs = None /\ bindOut = None
    /\ pyArgs = None /\ pyOut = None /\ pkgOut = None /\ srcOut = None
    /\ poetryArgs = None /\ poetryOut = None

\* lines 336-344: build the docker CLI container, await the exit code of
\* "docker image rm <image_tag>", log a removal
RemoveExistingImage(l) ==
    /\ loaders[l].pc = "start"
    /\ uuids < Len(UUIDS)
    /\ LET tar_name == Cat(UUIDS[uuids + 1], DOT_TAR)
           docker_cli == load_docker_cli(gsettings, tar_name, loadArgs[l].tar_file,
                                         loadArgs[l].docker_service_name)
           host == DockerHostOf(docker_cli)
           rm == image_rm_container(docker_cli, tar_name, loadArgs[l].image_tag)
           ran == docker_exec(daemons[host], rm, TRUE)
           awaited == with_exit_code(ran)
           docker_image_rm_exit_code == awaited.value
       IN  /\ daemons' = [daemons EXCEPT ![host] = ran.daemon]
           /\ loaders' = [loaders EXCEPT ![l] =
                  [pc |-> IF awaited.raised THEN "failed" ELSE "load", tar_name |-> Some(tar_name), docker_cli |-> Some(docker_cli),
                   docker_image_rm_exit_code |-> Some(docker_image_rm_exit_code),
                   image_load_output |-> None,
                   logged |-> IF ~awaited.raised /\ docker_image_rm_exit_code = 0
                              THEN << Cat(<<"Removed an existing image tagged ">>, loadArgs[l].image_tag) >>
                              ELSE <<>>,
                   issued |-> << ExecArgs(rm) >>, exits |-> << ran.exit_code >>]]
    /\ uuids' = uuids + 1
    /\ UNCHANGED <<gsettings, loadArgs, bindVars, pyVars>>

\* lines 345-348: await the output of "docker load --input <tar_name>", log it,
\* return unless it holds "sha256:"; a failed load raises out of stdout()
LoadImage(l) ==
    /\ loaders[l].pc = "load"
    /\ \E readable \in BOOLEAN :
        LET docker_cli == loaders[l].docker_cli.val
            host == DockerHostOf(docker_cli)
            load == image_load_container(docker_cli, loaders[l].tar_name.val)
            ran == docker_exec(daemons[host], load, readable)
            image_load_output == stdout(ran)
        IN  /\ daemons' = [daemons EXCEPT ![host] = ran.daemon]
            /\ loaders' = [loaders EXCEPT ![l] =
                   IF image_load_output.raised
                   THEN [@ EXCEPT !.pc = "failed", !.issued = Append(@, ExecArgs(load)),
                                  !.exits = Append(@, ran.exit_code)]
                   ELSE [@ EXCEPT !.pc = IF is_untagged_output(image_load_output.value)
                                        THEN "tag" ELSE "done",
                                  !.image_load_output = Some(image_load_output.value),
                                  !.logged = Append(@, image_load_output.value),
                                  !.issued = Append(@, ExecArgs(load)),
                                  !.exits = Append(@, ran.exit_code)]]
    /\ UNCHANGED <<gsettings, loadArgs, uuids, bindVars, pyVars>>

\* lines 349-351: await "docker tag <image_id> <image_tag>", log its output, return;
\* a failed tag raises out of stdout()
TagImage(l) ==
    /\ loaders[l].pc = "tag"
    /\ LET docker_cli == loaders[l].docker_cli.val
           host == DockerHostOf(docker_cli)
           image_id == parse_image_id(loaders[l].image_load_output.val)
           tag == image_tag_container(docker_cli, image_id, loadArgs[l].image_tag)
           ran == docker_exec(daemons[host], tag, TRUE)
           docker_tag_output == stdout(ran)
       IN  /\ daemons' = [daemons EXCEPT ![host] = ran.daemon]
           /\ loaders' = [loaders EXCEPT ![l] =
                  IF docker_tag_output.raised
                  THEN [@ EXCEPT !.pc = "failed", !.issued = Append(@, ExecArgs(tag)),
                                 !.exits = Append(@, ran.exit_code)]
                  ELSE [@ EXCEPT !.pc = "done", !.logged = Append(@, docker_tag_output.value),
                                 !.issued = Append(@, ExecArgs(tag)),
                                 !.exits = Append(@, ran.exit_code)]]
    /\ UNCHANGED <<gsettings, loadArgs, uuids, bindVars, pyVars>>

LoadNext == \E l \in Loaders : RemoveExistingImage(l) \/ LoadImage(l) \/ TagImage(l)

LoadSpec == LoadInit /\ [][LoadNext]_vars

-----------------------------------------------------------------------------
(* What the daemon holds when an invocation returns *)

\* the daemon invocation l is bound to holds the image of l's archive under l's tag
HoldsImageUnderTag(l, ds) ==
    LET d == ds[DockerHostOf(with_docker_cli(gsettings, None, loadArgs[l].docker_service_name))]
    IN  /\ loadArgs[l].tar_file.image_id \in d.images
        /\ d.tags[loadArgs[l].image_tag] = Some(loadArgs[l].tar_file.image_id)

\* C1 as claimed: whenever load_image_to_docker_host returns without error, the
\* daemon it is bound to holds the image loaded from tar_file under image_tag,
\* whether the load reported an image id or a tag, and whether or not image_tag
\* named an image before the call.
C1_ReturnImpliesImageUnderTag ==
    [][\A l \in Loaders :
          (loaders[l].pc # "done" /\ loaders'[l].pc = "done") => HoldsImageUnderTag(l, daemons')]_vars

-----------------------------------------------------------------------------
(* The commands an invocation issues *)

\* the commands invocation l has issued whose docker subcommand is verb
IssuedOf(l, verb) == SelectSeq(loaders[l].issued, LAMBDA a : a[2] = verb)

\* invocation l has stopped, by returning or by raising
Finished(l) == loaders[l].pc \in {"done", "failed"}

\* the load output reports an untagged image by its id
ReportsImageId(out, hash) == out = LOADED_IMAGE_ID \o hash \o <<NEWLINE>>

\* the load output reports a tag and holds no "sha256:"
ReportsTag(out) ==
    /\ \E t \in ImageTags : out = LOADED_IMAGE \o t \o <<NEWLINE>>
    /\ ~Contains(out, SHA256)

\* C11: once an invocation whose load output was 'Loaded image ID: sha256:<hash>\n'
\* has finished, it has issued exactly one tag command, "docker tag <hash>
\* <image_tag>", whose first argument is the bare hash; an invocation whose load
\* output reports a tag and holds no "sha256:" never issues a tag command.
C11_TagCommandIffImageIdReported ==
    \A l \in Loaders :
        /\ loaders[l].image_load_output # None =>
              LET out == loaders[l].image_load_output.val
                  hash == loadArgs[l].tar_file.image_id
              IN  /\ (ReportsImageId(out, hash) /\ Finished(l)) =>
                         IssuedOf(l, <<"tag">>) =
                             << << <<"docker">>, <<"tag">>, hash, loadArgs[l].image_tag >> >>
                  /\ ReportsTag(out) => IssuedOf(l, <<"tag">>) = <<>>
        /\ Len(IssuedOf(l, <<"tag">>)) <= 1

\* C11 witness: one invocation finished after an image-id report with its tag
\* command issued, the other finished after a tag report.
C11_Witness ==
    /\ loaders["A"].pc = "done"
    /\ ReportsImageId(loaders["A"].image_load_output.val, <<"a", "1">>)
    /\ Len(IssuedOf("A", <<"tag">>)) = 1
    /\ loaders["B"].pc = "done"
    /\ ReportsTag(loaders["B"].image_load_output.val)

\* the docker subcommands invocation l has issued, in order
Verbs(l) == [i \in 1..Len(loaders[l].issued) |-> loaders[l].issued[i][2]]

\* C12: the removal is issued and its exit code held before the load is issued
\* (the load is always the second command, after "docker image rm <image_tag>"),
\* whatever the removal's exit code the invocation goes on to the load (it never
\* fails with only the removal issued, and every finished invocation has issued
\* the load), and it can still return (witness).
C12_RemovalAwaitedAndNeverFatal ==
    \A l \in Loaders :
        /\ IssuedOf(l, <<"load">>) # <<>> =>
              /\ loaders[l].issued[1] = << <<"docker">>, <<"image">>, <<"rm">>, loadArgs[l].image_tag >>
              /\ loaders[l].issued[2][2] = <<"load">>
              /\ loaders[l].docker_image_rm_exit_code # None
        /\ loaders[l].pc = "failed" => Len(loaders[l].issued) >= 2
        /\ loaders[l].pc = "load" => Verbs(l) = << <<"image">> >>
        /\ Finished(l) => Len(IssuedOf(l, <<"load">>)) = 1

\* C12 witness: the removal exited non-zero, the load was issued and the
\* invocation returned.
C12_Witness ==
    /\ loaders["A"].pc = "done"
    /\ loaders["A"].docker_image_rm_exit_code = Some(1)
    /\ Len(IssuedOf("A", <<"load">>)) = 1

\* C13: an invocation whose load command exited non-zero has failed (it has not
\* returned and never will) and the load is the last command it issued, so no
\* tag command follows.
C13_FailedLoadIsFatal ==
    \A l \in Loaders : \A i \in 1..Len(loaders[l].issued) :
        (Verbs(l)[i] = <<"load">> /\ loaders[l].exits[i] # 0) =>
            /\ loaders[l].pc = "failed"
            /\ i = Len(loaders[l].issued)
            /\ IssuedOf(l, <<"tag">>) = <<>>

\* C13 witness: a load command exited non-zero.
C13_Witness ==
    /\ Verbs("A") = << <<"image">>, <<"load">> >>
    /\ loaders["A"].exits[2] # 0
    /\ loaders["A"].pc = "failed"

\* the load output confirms that the loaded image carries the given tag
ConfirmsTag(out, image_tag) == Contains(out, LOADED_IMAGE \o image_tag)

\* C14 as claimed: an invocation whose load output holds neither a confirmation
\* of image_tag nor "sha256:" does not return; it raises.
C14_UnrecognisedOutputIsSurfaced ==
    \A l \in Loaders :
        (/\ loaders[l].image_load_output # None
         /\ ~ConfirmsTag(loaders[l].image_load_output.val, loadArgs[l].image_tag)
         /\ ~is_untagged_output(loaders[l].image_load_output.val)) =>
            loaders[l].pc # "done"

-----------------------------------------------------------------------------
(* Cache mounts of the daemon and of its client *)

\* the with_mounted_cache calls made on c
CacheMounts(c) == OpsOf(c, "with_mounted_cache")

\* the cache mounts of c at a path
CacheMountsAt(c, path) == SelectSeq(CacheMounts(c), LAMBDA o : o.path = path)

\* the cache mounts the daemon has besides its storage
DaemonSharedMounts(k) == SelectSeq(CacheMounts(Daemon(k)), LAMBDA o : o.path # VAR_LIB_DOCKER)

\* the calls made on the client after it was bound to its daemon
AfterBinding(k) ==
    LET c == bindOut[k].val
        i == CHOOSE j \in 1..Len(c) : c[j].op = "with_service_binding"
    IN  SubSeq(c, i + 1, Len(c))

\* C15: a bound client and its daemon both mount the shared volume's cache at the
\* shared volume's path, once each, when a shared_volume was passed; when none
\* was passed the daemon mounts nothing besides its storage and the client
\* mounts nothing after the binding.
C15_SharedVolumeOnBothOrNeither ==
    \A k \in Callers : Bound(k) =>
        IF SharedVolumeOf(k) # None
        THEN LET path == SharedVolumeOf(k).val[1]
                 cache == SharedVolumeOf(k).val[2]
             IN  /\ Len(DaemonSharedMounts(k)) = 1
                 /\ DaemonSharedMounts(k)[1].path = path
                 /\ DaemonSharedMounts(k)[1].cache = cache
                 /\ Len(AfterBinding(k)) = 1
                 /\ AfterBinding(k)[1].op = "with_mounted_cache"
                 /\ AfterBinding(k)[1].path = path
                 /\ AfterBinding(k)[1].cache = cache
        ELSE /\ DaemonSharedMounts(k) = <<>>
             /\ AfterBinding(k) = <<>>

\* C15 witness: one client bound with a caller's shared volume, mounted on both
\* sides, and one bound without any.
C15_Witness ==
    /\ Bound(1) /\ Bound(2)
    /\ SharedVolumeOf(1) = SCRATCH_VOLUME
    /\ CacheMountsAt(Daemon(1), <<"/", "s">>) # <<>>
    /\ CacheMountsAt(bindOut[1].val, <<"/", "s">>) # <<>>
    /\ SharedVolumeOf(2) = None
    /\ CacheMounts(bindOut[2].val) = <<>>

\* caller k's call of with_gradle has returned
GradleBuilt(k) == bindArgs[k].fn = "with_gradle" /\ bindOut[k] # None

\* C16 as claimed: the container with_gradle returns mounts the build cache with
\* LOCKED sharing and the read-only dependency cache with SHARED sharing.
C16_GradleCacheSharingModes ==
    \A k \in Callers : GradleBuilt(k) =>
        LET build == CacheMountsAt(bindOut[k].val, gsettings.GRADLE_BUILD_CACHE_PATH)
            deps == CacheMountsAt(bindOut[k].val, gsettings.GRADLE_READ_ONLY_DEPENDENCY_CACHE_PATH)
        IN  /\ Len(build) = 1
            /\ build[1].cache = cache_volume(<<"gradle-build-cache">>)
            /\ build[1].sharing = LOCKED
            /\ Len(deps) = 1
            /\ deps[1].cache = cache_volume(<<"gradle-dependencies-caching">>)
            /\ deps[1].sharing = SHARED

\* C17: the daemon of every bound client, for every shared_volume and
\* docker_service_name, has exactly one cache mounted at /var/lib/docker, its
\* storage volume, with SHARED sharing.
C17_DaemonStorageIsShared ==
    \A k \in Callers : Bound(k) =>
        LET storage == CacheMountsAt(Daemon(k), VAR_LIB_DOCKER)
        IN  /\ Len(storage) = 1
            /\ storage[1].sharing = SHARED
            /\ storage[1].cache = cache_volume(StorageVolumeName(k))

\* C17 witness: daemons built with and without a shared volume and service name,
\* each with its storage mounted SHARED.
C17_Witness ==
    /\ Bound(1) /\ Bound(2)
    /\ SharedVolumeOf(1) # None /\ Truthy(ServiceNameOf(1))
    /\ SharedVolumeOf(2) = None /\ ServiceNameOf(2) = None
    /\ CacheMountsAt(Daemon(1), VAR_LIB_DOCKER)[1].sharing = SHARED
    /\ CacheMountsAt(Daemon(2), VAR_LIB_DOCKER)[1].sharing = SHARED

-----------------------------------------------------------------------------
(* The exclusion list of the package source mount *)

\* the elements of a list
Elements(list) == {list[i] : i \in 1..Len(list)}

\* the exclusion list with which c mounts the package source
PackageExclude(c) ==
    SelectSeq(OpsOf(c, "with_mounted_directory"),
              LAMBDA o : o.path = Cat(SLASH, PACKAGE_PATH))[1].directory.exclude.val

\* the exclusions the caller supplied, none when the argument is left out
CallerExcludes == IF pyArgs.exclude = None THEN {} ELSE Elements(pyArgs.exclude.val)

\* C18: the package source is mounted with the default exclusions together with
\* the caller's (the default ones alone when the caller gives none); the default
\* exclusion list in settings stays what it was; and a later call without
\* exclusions mounts with the default exclusions alone.
C18_ExcludeIsDefaultPlusCallers ==
    /\ gsettings.DEFAULT_PYTHON_EXCLUDE = GlobalSettings.DEFAULT_PYTHON_EXCLUDE
    /\ Installed =>
          /\ Elements(PackageExclude(pkgOut.val)) =
                 Elements(GlobalSettings.DEFAULT_PYTHON_EXCLUDE) \cup CallerExcludes
          /\ CallerExcludes = {} =>
                 PackageExclude(pkgOut.val) = GlobalSettings.DEFAULT_PYTHON_EXCLUDE
    /\ srcOut # None => PackageExclude(srcOut.val) = GlobalSettings.DEFAULT_PYTHON_EXCLUDE

\* C18 witness: a call excluding "dist" mounted with the default exclusions and
\* "dist", and the later call without exclusions mounted with the default ones.
C18_Witness ==
    /\ Installed
    /\ pyArgs.exclude = Some(<<DIST>>)
    /\ DIST \in Elements(PackageExclude(pkgOut.val))
    /\ srcOut # None
    /\ DIST \notin Elements(PackageExclude(srcOut.val))

-----------------------------------------------------------------------------
(* The address the client is given and the address the daemon serves *)

DECIMAL == <<"0", "1", "2", "3", "4", "5", "6", "7", "8", "9">>

\* a port number written in decimal
RECURSIVE ToDecimal(_)
ToDecimal(n) ==
    IF n < Len(DECIMAL) THEN <<DECIMAL[n + 1]>>
    ELSE ToDecimal(n \div Len(DECIMAL)) \o <<DECIMAL[(n % Len(DECIMAL)) + 1]>>

\* the value the client's DOCKER_HOST is set to
DockerHost(k) ==
    SelectSeq(OpsOf(bindOut[k].val, "with_env_variable"),
              LAMBDA o : o.name = <<"DOCKER_HOST">>)[1].value

\* the ports the daemon exposes
ExposedPorts(k) == {o.port : o \in Elements(OpsOf(Daemon(k), "with_exposed_port"))}

\* the positions in the daemon's chain of the calls of one kind
DaemonPositions(k, kind) == {i \in 1..Len(Daemon(k)) : Daemon(k)[i].op = kind}

\* C19: in every bound client DOCKER_HOST is "tcp://<alias>:<port>", the alias
\* being the one its service binding registers and the port the single port its
\* daemon exposes, which is also the port of the daemon's --host flag; and the
\* daemon's chain ends with its only with_exec, the dockerd start, after every
\* cache mount and the port exposure.
C19_ClientAddressMatchesDaemon ==
    \A k \in Callers : Bound(k) =>
        \E port \in ExposedPorts(k) :
            /\ ExposedPorts(k) = {port}
            /\ DockerHost(k) = TCP \o Hostname(k) \o <<":">> \o ToDecimal(port)
            /\ DaemonPositions(k, "with_exec") = {Len(Daemon(k))}
            /\ \A i \in DaemonPositions(k, "with_mounted_cache") \cup
                        DaemonPositions(k, "with_exposed_port") : i < Len(Daemon(k))
            /\ ExecArgs(Daemon(k))[1] = <<"dockerd">>
            /\ ExecArgs(Daemon(k))[3] = HOST_TCP_ANY \o <<":">> \o ToDecimal(port)

\* C19 witness: a client bound with a shared volume and a service name, its
\* daemon mounting two caches and exposing 2375 before starting dockerd.
C19_Witness ==
    /\ Bound(1)
    /\ SharedVolumeOf(1) # None /\ Truthy(ServiceNameOf(1))
    /\ Cardinality(DaemonPositions(1, "with_mounted_cache")) = 2
    /\ DockerHost(1) = TCP \o Hostname(1) \o COLON_2375
    /\ ExposedPorts(1) = {DOCKERD_PORT}
    /\ Daemon(1)[Len(Daemon(1))].op = "with_exec"

-----------------------------------------------------------------------------
(* The daemon of the image loader and the daemon of the gradle environment *)

\* the docker CLI container load_image_to_docker_host builds for a service name
LoaderClient(docker_service_name) ==
    load_docker_cli(gsettings, Cat(UUIDS[1], DOT_TAR),
                    [image_id |-> OLD_IMAGE, repo_tag |-> None], docker_service_name)

\* the name of the cache volume the daemon of client c mounts at /var/lib/docker
StorageVolumeNameOf(c) ==
    CacheMountsAt(OpsOf(c, "with_service_binding")[1].service, VAR_LIB_DOCKER)[1].cache.cache

\* C20 as claimed: the environment with_gradle(bind_to_docker_host=True,
\* docker_service_name=S) returns and the docker client that
\* load_image_to_docker_host(docker_service_name=S) builds have the same docker
\* hostname and the same daemon storage-volume name, for every S.
C20_LoaderSharesGradleDaemon ==
    \A k \in Callers : (GradleBuilt(k) /\ Bound(k)) =>
        /\ DockerHostOf(LoaderClient(ServiceNameOf(k))) = Hostname(k)
        /\ StorageVolumeNameOf(LoaderClient(ServiceNameOf(k))) = StorageVolumeName(k)

-----------------------------------------------------------------------------
(* Two invocations loading into the same daemon *)

\* the hostname invocation l reaches its daemon by
HostOf(l) == DockerHostOf(with_docker_cli(gsettings, None, loadArgs[l].docker_service_name))

\* the two invocations load into the same daemon under different image tags
SameDaemonDifferentTags ==
    /\ HostOf("A") = HostOf("B")
    /\ loadArgs["A"].image_tag # loadArgs["B"].image_tag

\* the other invocation
Other(l) == CHOOSE m \in Loaders : m # l

\* a step of invocation l leaves what the other invocation's tag names as it
\* was, and leaves the image of the other's archive stored when it was
LeavesOtherAlone(l) ==
    LET o == Other(l)
        d == daemons[HostOf(o)]
        d2 == daemons'[HostOf(o)]
    IN  /\ d2.tags[loadArgs[o].image_tag] = d.tags[loadArgs[o].image_tag]
        /\ loadArgs[o].tar_file.image_id \in d.images =>
               loadArgs[o].tar_file.image_id \in d2.images

\* C21 as claimed: with two invocations on the same daemon and different image
\* tags, in every interleaving the two archives are mounted under distinct file
\* names, once both have returned each image tag names the image of its own
\* archive, and no step of one invocation removes the other's image or changes
\* what the other's tag names.
C21_ConcurrentLoadsDoNotInterfere ==
    [][SameDaemonDifferentTags =>
          /\ (loaders'["A"].tar_name # None /\ loaders'["B"].tar_name # None) =>
                 loaders'["A"].tar_name # loaders'["B"].tar_name
          /\ (loaders'["A"].pc = "done" /\ loaders'["B"].pc = "done") =>
                 /\ HoldsImageUnderTag("A", daemons')
                 /\ HoldsImageUnderTag("B", daemons')
          /\ \A l \in Loaders : loaders'[l] # loaders[l] => LeavesOtherAlone(l)]_vars

-----------------------------------------------------------------------------
(* The cache volumes of the poetry environments *)

\* the names of the cache volumes mounted in c
MountedCacheNames(c) == {o.cache.cache : o \in Elements(CacheMounts(c))}

\* C22 as claimed: every cache volume that with_poetry or with_poetry_module
\* reserved is mounted in the container it returned, and that container has the
\* poetry cache mounted at /root/.cache/pypoetry with SHARED sharing.
C22_AcquiredCachesAreMounted ==
    \A f \in PoetryBuilders : poetryOut[f] # None =>
        LET c == poetryOut[f].val.container.val
            poetry == CacheMountsAt(c, ROOT_CACHE_PYPOETRY)
        IN  /\ Elements(poetryOut[f].val.reserved) \subseteq MountedCacheNames(c)
            /\ Len(poetry) = 1
            /\ poetry[1].cache = cache_volume(POETRY_CACHE)
            /\ poetry[1].sharing = SHARED

====
